---------------------------- MODULE Spec2Model ----------------------------
(***************************************************************************)
(* Model of src/pipeline/reconciliation.py: the reconciliation run of      *)
(* main() (config lookup, sheet and column validation, provider            *)
(* resolution, key normalisation, outer merge, classification, summary,    *)
(* provider breakdown, workbook output) and of normalize_key.              *)
(*                                                                         *)
(* Conventions.                                                            *)
(*  - A string cell is a sequence of one-character strings, so that        *)
(*    normalize_key is computed character by character.  Locator cells are *)
(*    strings: astype(str) (line 21) leaves them as they are.              *)
(*  - Column names are the names after lines 86-92 have stripped and       *)
(*    lower-cased them.                                                    *)
(*  - A provider cell is a string, NA standing for pandas' NaN / pd.NA.    *)
(*  - A numeric cell is <<n>> for the number n and <<>> for a cell that    *)
(*    pd.to_numeric(errors="coerce") turns into NaN.  Amounts are integers *)
(*    counted in units of 0.25 (so the default tolerance 0.25 is 1).       *)
(*  - A DataFrame is a sequence of rows (records); a row's position in the *)
(*    input sheet is kept as its id, standing for the original columns     *)
(*    that the merge carries along.                                        *)
(***************************************************************************)
EXTENDS Integers, Sequences, FiniteSets, TLC

VARIABLES
    config,           \* the loaded JSON config (line 73)
    workbook,         \* the input workbook: sheet names and the two sheets
    provider_map,     \* the alias map found by load_provider_map()
    pc,               \* position of main()
    error,            \* the exception main() ended with, "none" otherwise
    orders_df,        \* the orders DataFrame
    commissions_df,   \* the commissions DataFrame
    merged,           \* the merged DataFrame (lines 120-135)
    tolerance,        \* line 137
    matches, gaps, orders_only, commissions_only,   \* lines 138-141
    summary,          \* lines 143-171
    provider_summary, \* lines 173-181
    buffered,         \* sheets handed to the ExcelWriter, in order
    saved,            \* sheets of the workbook saved on disk
    raw, variant, nkey  \* normalize_key(raw), and a respelling of raw

vars == <<config, workbook, provider_map, pc, error, orders_df, commissions_df,
          merged, tolerance, matches, gaps, orders_only, commissions_only,
          summary, provider_summary, buffered, saved, raw, variant, nkey>>

pipeVars == <<config, workbook, provider_map, pc, error, orders_df, commissions_df,
          merged, tolerance, matches, gaps, orders_only, commissions_only,
          summary, provider_summary, buffered, saved>>

normVars == <<raw, variant, nkey>>

-----------------------------------------------------------------------------
(* Bounds of the model *)

\* rows per input sheet
MaxRows == 2
\* characters of a raw identifier
MaxLen == 3

-----------------------------------------------------------------------------
(* Characters and normalize_key (lines 19-25) *)

Lower == {"a", "b"}
UpperCase == {"A", "B"}
Digits == {"1"}
Whitespace == {" "}
Punct == {"-"}

\* the character class [0-9A-Za-z] of line 23
IsAlnum(c) == c \in Digits \cup UpperCase \cup Lower

\* str.upper on one character
ToUpper(c) == CASE c = "a" -> "A" [] c = "b" -> "B" [] OTHER -> c

RECURSIVE LStrip(_)
LStrip(s) == IF s # <<>> /\ Head(s) \in Whitespace THEN LStrip(Tail(s)) ELSE s

RECURSIVE RStrip(_)
RStrip(s) ==
    IF s # <<>> /\ s[Len(s)] \in Whitespace
    THEN RStrip(SubSeq(s, 1, Len(s) - 1)) ELSE s

\* .str.strip()
Strip(s) == RStrip(LStrip(s))

\* faulty variant: the character class written without A-Z
RemoveNonLowerAlnum(s) == SelectSeq(s, LAMBDA c : c \in Digits \cup Lower)

\* .str.replace(r"[^0-9A-Za-z]", "", regex=True) (line 23)
RemoveNonAlnum(s) == SelectSeq(s, IsAlnum)

\* .str.upper()
StrUpper(s) == [i \in 1..Len(s) |-> ToUpper(s[i])]

normalize_key(s) == StrUpper(RemoveNonAlnum(Strip(s)))

-----------------------------------------------------------------------------
(* Values *)

\* pandas' NaN / pd.NA in a provider column
NA == "NA"
\* NaN in a numeric column
NaN == <<>>
Num(n) == <<n>>

Abs(n) == IF n < 0 THEN -n ELSE n

\* float(config.get("tolerance", 0.25)): 0.25 in units of 0.25 (line 137)
DefaultTolerance == 1

\* config.get("provider_cols", [...]) (line 102)
DefaultProviderCols == <<"provider", "supplier", "operator">>

\* the names cfg() is called with (lines 75-92, 183)
InputFileKeys == <<"input_file">>
OrdersSheetKeys == <<"orders_sheet", "odv_sheet">>
CommissionsSheetKeys == <<"commissions_sheet", "com_sheet">>
OrdersKeyKeys == <<"orders_key", "odv_key">>
CommissionsKeyKeys == <<"commissions_key", "com_key">>
OrdersCommissionKeys == <<"orders_commission_col", "odv_commission_col">>
CommissionsCommissionKeys == <<"commissions_commission_col", "com_commission_col">>
OutputFileKeys == <<"output_file">>

\* cfg (lines 12-16): whether some key of keys is in the config ...
CfgHas(c, keys) == \E i \in 1..Len(keys) : keys[i] \in DOMAIN c

\* ... and the value of the first that is (KeyError otherwise)
Cfg(c, keys) ==
    LET i == CHOOSE j \in 1..Len(keys) :
                 /\ keys[j] \in DOMAIN c
                 /\ \A k \in 1..(j - 1) : keys[k] \notin DOMAIN c
    IN  c[keys[i]]

\* df[col] = values, an existing column being overwritten
WithColumn(df, col, values) ==
    [columns |-> df.columns \cup {col},
     rows |-> [i \in 1..Len(df.rows) |->
                 [c \in df.columns \cup {col} |->
                     IF c = col THEN values[i] ELSE df.rows[i][c]]]]

RECURSIVE SumSeq(_)
SumSeq(s) == IF s = <<>> THEN 0 ELSE Head(s) + SumSeq(Tail(s))

Column(rows, col) == [i \in 1..Len(rows) |-> rows[i][col]]

\* safe_sum (lines 37-41) of a column already made numeric
safe_sum(series) == SumSeq(series)

\* pd.to_numeric(..., errors="coerce").fillna(0) (lines 114-118)
to_numeric_fillna0(cell) == IF cell = NaN THEN 0 ELSE cell[1]

\* Series.fillna(0) on a numeric cell (lines 128-129)
fillna0(cell) == IF cell = NaN THEN 0 ELSE cell[1]

\* Series.replace(provider_map) on one cell (lines 108-109)
replace(cell, map) == IF cell \in DOMAIN map THEN map[cell] ELSE cell

\* first candidate column present in the frame, "" when none (lines 45-50)
RECURSIVE FirstPresent(_, _)
FirstPresent(candidates, columns) ==
    IF candidates = <<>> THEN ""
    ELSE IF Head(candidates) \in columns THEN Head(candidates)
    ELSE FirstPresent(Tail(candidates), columns)

\* ensure_provider_column (lines 44-50)
ensure_provider_column(df, candidates, suffix) ==
    LET col == FirstPresent(candidates, df.columns)
    IN  WithColumn(df, suffix,
                   [i \in 1..Len(df.rows) |->
                       IF col = "" THEN NA ELSE df.rows[i][col]])

-----------------------------------------------------------------------------
(* The outer merge (lines 120-135) *)

\* code-point order of the characters, for the lexicographic key sort
CharOrder == <<" ", "-", "1", "A", "B", "a", "b">>
CharRank(c) == CHOOSE i \in 1..Len(CharOrder) : CharOrder[i] = c

RECURSIVE LexLeq(_, _)
LexLeq(s, t) ==
    IF s = <<>> THEN TRUE
    ELSE IF t = <<>> THEN FALSE
    ELSE IF Head(s) = Head(t) THEN LexLeq(Tail(s), Tail(t))
    ELSE CharRank(Head(s)) < CharRank(Head(t))

RECURSIVE SortKeys(_)
SortKeys(S) ==
    IF S = {} THEN <<>>
    ELSE LET m == CHOOSE x \in S : \A y \in S : LexLeq(x, y)
         IN  <<m>> \o SortKeys(S \ {m})

\* positions of the rows of a frame that carry key k, in row order
RowsWithKey(rows, k) ==
    SelectSeq([i \in 1..Len(rows) |-> i], LAMBDA i : rows[i]["key"] = k)

\* one merged row: the columns of both sides, NaN for an absent side
MergedRow(k, o, c, ind) ==
    [key |-> k,
     row_order |-> IF o = <<>> THEN NaN ELSE Num(o[1]["row"]),
     row_commission |-> IF c = <<>> THEN NaN ELSE Num(c[1]["row"]),
     provider_orders |-> IF o = <<>> THEN NA ELSE o[1]["provider_orders"],
     provider_commissions |-> IF c = <<>> THEN NA ELSE c[1]["provider_commissions"],
     ExpectedCommissionUSD |-> IF o = <<>> THEN NaN ELSE Num(o[1]["ExpectedCommissionUSD"]),
     BilledCommissionUSD |-> IF c = <<>> THEN NaN ELSE Num(c[1]["BilledCommissionUSD"]),
     indicator |-> ind]

\* faulty variant: a key's rows paired one to one, by position
ZipRowsForKey(L, R, k) ==
    LET ls == RowsWithKey(L, k)
        rs == RowsWithKey(R, k)
        n  == IF Len(ls) > Len(rs) THEN Len(ls) ELSE Len(rs)
    IN  [i \in 1..n |->
            IF i > Len(rs) THEN MergedRow(k, <<L[ls[i]]>>, <<>>, "left_only")
            ELSE IF i > Len(ls) THEN MergedRow(k, <<>>, <<R[rs[i]]>>, "right_only")
            ELSE MergedRow(k, <<L[ls[i]]>>, <<R[rs[i]]>>, "both")]

\* the merged rows of one key: every left row paired with every right row,
\* or the rows of the only side that has the key
RowsForKey(L, R, k) ==
    LET ls == RowsWithKey(L, k)
        rs == RowsWithKey(R, k)
    IN  IF rs = <<>>
        THEN [n \in 1..Len(ls) |-> MergedRow(k, <<L[ls[n]]>>, <<>>, "left_only")]
        ELSE IF ls = <<>>
        THEN [n \in 1..Len(rs) |-> MergedRow(k, <<>>, <<R[rs[n]]>>, "right_only")]
        ELSE [n \in 1..(Len(ls) * Len(rs)) |->
                MergedRow(k, <<L[ls[((n - 1) \div Len(rs)) + 1]]>>,
                             <<R[rs[((n - 1) % Len(rs)) + 1]]>>, "both")]

RECURSIVE MergeKeys(_, _, _)
MergeKeys(L, R, ks) ==
    IF ks = <<>> THEN <<>>
    ELSE RowsForKey(L, R, Head(ks)) \o MergeKeys(L, R, Tail(ks))

\* orders_df.merge(commissions_df, on="key", how="outer", indicator=True):
\* keys in lexicographic order (lines 120-126)
OuterMerge(L, R) ==
    MergeKeys(L, R, SortKeys({L[i]["key"] : i \in 1..Len(L)}
                             \cup {R[j]["key"] : j \in 1..Len(R)}))

\* combine_first(...).fillna("Unassigned") (lines 131-135)
CombineProvider(po, pcm) ==
    IF po # NA THEN po ELSE IF pcm # NA THEN pcm ELSE "Unassigned"

\* lines 128-135 on one merged row
FinishRow(r) ==
    [key |-> r.key,
     row_order |-> r.row_order,
     row_commission |-> r.row_commission,
     provider_orders |-> r.provider_orders,
     provider_commissions |-> r.provider_commissions,
     ExpectedCommissionUSD |-> fillna0(r.ExpectedCommissionUSD),
     BilledCommissionUSD |-> fillna0(r.BilledCommissionUSD),
     CommissionGapUSD |-> fillna0(r.ExpectedCommissionUSD) - fillna0(r.BilledCommissionUSD),
     Provider |-> CombineProvider(r.provider_orders, r.provider_commissions),
     indicator |-> r.indicator]

-----------------------------------------------------------------------------
(* Classification and aggregation (lines 137-181) *)

IsBoth(r) == r.indicator = "both"
IsLeftOnly(r) == r.indicator = "left_only"
IsRightOnly(r) == r.indicator = "right_only"

\* matches["CommissionGapUSD"].abs() > tolerance (line 141)
ExceedsTolerance(r, tol) == Abs(r.CommissionGapUSD) > tol

CategoryNames ==
    <<"Perfect Match", "Commission Gap", "Orders Missing Commission",
      "Commission Missing Order">>

SummaryRow(cat, n, e, b, g) ==
    [Category |-> cat, Records |-> n, ExpectedCommissionUSD |-> e,
     BilledCommissionUSD |-> b, CommissionGapUSD |-> g]

\* faulty variant: the two constant cells in each other's place
MakeSummarySwapped(m, g, oo, co) ==
    << SummaryRow(CategoryNames[1], Len(m),
                  safe_sum(Column(m, "ExpectedCommissionUSD")),
                  safe_sum(Column(m, "BilledCommissionUSD")),
                  safe_sum(Column(m, "CommissionGapUSD"))),
       SummaryRow(CategoryNames[2], Len(g),
                  safe_sum(Column(g, "ExpectedCommissionUSD")),
                  safe_sum(Column(g, "BilledCommissionUSD")),
                  safe_sum(Column(g, "CommissionGapUSD"))),
       SummaryRow(CategoryNames[3], Len(oo),
                  0,
                  safe_sum(Column(oo, "BilledCommissionUSD")),
                  safe_sum(Column(oo, "CommissionGapUSD"))),
       SummaryRow(CategoryNames[4], Len(co),
                  safe_sum(Column(co, "ExpectedCommissionUSD")),
                  0,
                  safe_sum(Column(co, "CommissionGapUSD"))) >>

\* the summary frame (lines 143-171)
MakeSummary(m, g, oo, co) ==
    << SummaryRow(CategoryNames[1], Len(m),
                  safe_sum(Column(m, "ExpectedCommissionUSD")),
                  safe_sum(Column(m, "BilledCommissionUSD")),
                  safe_sum(Column(m, "CommissionGapUSD"))),
       SummaryRow(CategoryNames[2], Len(g),
                  safe_sum(Column(g, "ExpectedCommissionUSD")),
                  safe_sum(Column(g, "BilledCommissionUSD")),
                  safe_sum(Column(g, "CommissionGapUSD"))),
       SummaryRow(CategoryNames[3], Len(oo),
                  safe_sum(Column(oo, "ExpectedCommissionUSD")),
                  0,
                  safe_sum(Column(oo, "CommissionGapUSD"))),
       SummaryRow(CategoryNames[4], Len(co),
                  0,
                  safe_sum(Column(co, "BilledCommissionUSD")),
                  safe_sum(Column(co, "CommissionGapUSD"))) >>

\* the provider labels of the model in sort order, as groupby emits its groups
ProviderOrder == <<"P", "Unassigned", "p1", "p2", "s1">>

\* faulty variant: grouped with groupby's default dropna=True on the order
\* side's provider column, the rows without an order-side provider lost
breakdown_by_order_provider(df, category) ==
    IF df = <<>> THEN <<>>
    ELSE LET groups == SelectSeq(ProviderOrder,
                           LAMBDA p : \E i \in 1..Len(df) : df[i].provider_orders = p)
             Group(p) == SelectSeq(df, LAMBDA r : r.provider_orders = p)
         IN  [n \in 1..Len(groups) |->
                [Category |-> category,
                 Provider |-> groups[n],
                 Records |-> Len(Group(groups[n])),
                 ExpectedCommissionUSD |->
                     SumSeq(Column(Group(groups[n]), "ExpectedCommissionUSD")),
                 BilledCommissionUSD |->
                     SumSeq(Column(Group(groups[n]), "BilledCommissionUSD")),
                 CommissionGapUSD |->
                     SumSeq(Column(Group(groups[n]), "CommissionGapUSD"))]]

\* breakdown_by_provider (lines 53-68)
breakdown_by_provider(df, category) ==
    IF df = <<>> THEN <<>>
    ELSE LET groups == SelectSeq(ProviderOrder,
                           LAMBDA p : \E i \in 1..Len(df) : df[i].Provider = p)
             Group(p) == SelectSeq(df, LAMBDA r : r.Provider = p)
         IN  [n \in 1..Len(groups) |->
                [Category |-> category,
                 Provider |-> groups[n],
                 Records |-> Len(Group(groups[n])),
                 ExpectedCommissionUSD |->
                     SumSeq(Column(Group(groups[n]), "ExpectedCommissionUSD")),
                 BilledCommissionUSD |->
                     SumSeq(Column(Group(groups[n]), "BilledCommissionUSD")),
                 CommissionGapUSD |->
                     SumSeq(Column(Group(groups[n]), "CommissionGapUSD"))]]

-----------------------------------------------------------------------------
(* main() (lines 71-194) *)

EmptyFrame == [columns |-> {}, rows |-> <<>>]

Raise(exc) ==
    /\ pc' = "failed"
    /\ error' = exc
    /\ UNCHANGED <<config, workbook, provider_map, orders_df, commissions_df,
                   merged, tolerance, matches, gaps, orders_only,
                   commissions_only, summary, provider_summary, buffered, saved>>

\* lines 72-76: the config is loaded, the input workbook opened
OpenWorkbook ==
    /\ pc = "start"
    /\ UNCHANGED normVars
    /\ \/ /\ ~CfgHas(config, InputFileKeys)
          /\ Raise("KeyError")
       \/ /\ CfgHas(config, InputFileKeys)
          /\ pc' = "sheets"
          /\ UNCHANGED <<config, workbook, provider_map, error, orders_df,
                         commissions_df, merged, tolerance, matches, gaps,
                         orders_only, commissions_only, summary,
                         provider_summary, buffered, saved>>

\* lines 78-87: the two sheets are looked up and parsed
SelectSheets ==
    /\ pc = "sheets"
    /\ UNCHANGED normVars
    /\ \/ /\ ~(CfgHas(config, OrdersSheetKeys) /\ CfgHas(config, CommissionsSheetKeys))
          /\ Raise("KeyError")
       \/ /\ CfgHas(config, OrdersSheetKeys) /\ CfgHas(config, CommissionsSheetKeys)
          /\ \/ Cfg(config, OrdersSheetKeys) \notin DOMAIN workbook
             \/ Cfg(config, CommissionsSheetKeys) \notin DOMAIN workbook
          /\ Raise("ValueError")
       \/ /\ CfgHas(config, OrdersSheetKeys) /\ CfgHas(config, CommissionsSheetKeys)
          /\ Cfg(config, OrdersSheetKeys) \in DOMAIN workbook
          /\ Cfg(config, CommissionsSheetKeys) \in DOMAIN workbook
          /\ orders_df' = workbook[Cfg(config, OrdersSheetKeys)]
          /\ commissions_df' = workbook[Cfg(config, CommissionsSheetKeys)]
          /\ pc' = "columns"
          /\ UNCHANGED <<config, workbook, provider_map, error, merged,
                         tolerance, matches, gaps, orders_only,
                         commissions_only, summary, provider_summary,
                         buffered, saved>>

ColumnKeysPresent ==
    /\ CfgHas(config, OrdersKeyKeys)
    /\ CfgHas(config, CommissionsKeyKeys)
    /\ CfgHas(config, OrdersCommissionKeys)
    /\ CfgHas(config, CommissionsCommissionKeys)

\* missing = [col for col in required if col not in df.columns] (line 98)
MissingColumns ==
    ({Cfg(config, OrdersKeyKeys), Cfg(config, OrdersCommissionKeys)}
        \ orders_df.columns)
    \cup ({Cfg(config, CommissionsKeyKeys), Cfg(config, CommissionsCommissionKeys)}
        \ commissions_df.columns)

\* lines 89-100: the configured columns are looked up and required
ValidateColumns ==
    /\ pc = "columns"
    /\ UNCHANGED normVars
    /\ \/ /\ ~ColumnKeysPresent
          /\ Raise("KeyError")
       \/ /\ ColumnKeysPresent
          /\ MissingColumns # {}
          /\ Raise("ValueError")
       \/ /\ ColumnKeysPresent
          /\ MissingColumns = {}
          /\ pc' = "providers"
          /\ UNCHANGED <<config, workbook, provider_map, error, orders_df,
                         commissions_df, merged, tolerance, matches, gaps,
                         orders_only, commissions_only, summary,
                         provider_summary, buffered, saved>>

\* config.get("provider_cols", [...]) (line 102)
ProviderCols ==
    IF "provider_cols" \in DOMAIN config
    THEN config["provider_cols"] ELSE DefaultProviderCols

\* lines 105 and 108, lines 106 and 109: the provider column of one frame
ResolveProviderColumn(df, suffix) ==
    LET withCol == ensure_provider_column(df, ProviderCols, suffix)
    IN  WithColumn(withCol, suffix,
                   [i \in 1..Len(withCol.rows) |->
                       replace(withCol.rows[i][suffix], provider_map)])

\* lines 102-109
ResolveProviders ==
    /\ pc = "providers"
    /\ UNCHANGED normVars
    /\ orders_df' = ResolveProviderColumn(orders_df, "provider_orders")
    /\ commissions_df' = ResolveProviderColumn(commissions_df, "provider_commissions")
    /\ pc' = "keys"
    /\ UNCHANGED <<config, workbook, provider_map, error, merged, tolerance,
                   matches, gaps, orders_only, commissions_only, summary,
                   provider_summary, buffered, saved>>

\* lines 111 and 114, lines 112 and 115-118: key and amount of one frame
KeyAndAmount(df, keyCol, amountCol, amountName) ==
    LET withKey == WithColumn(df, "key",
                       [i \in 1..Len(df.rows) |-> normalize_key(df.rows[i][keyCol])])
    IN  WithColumn(withKey, amountName,
                   [i \in 1..Len(df.rows) |-> to_numeric_fillna0(df.rows[i][amountCol])])

\* lines 111-118
NormalizeKeys ==
    /\ pc = "keys"
    /\ UNCHANGED normVars
    /\ orders_df' = KeyAndAmount(orders_df, Cfg(config, OrdersKeyKeys),
                        Cfg(config, OrdersCommissionKeys), "ExpectedCommissionUSD")
    /\ commissions_df' = KeyAndAmount(commissions_df, Cfg(config, CommissionsKeyKeys),
                        Cfg(config, CommissionsCommissionKeys), "BilledCommissionUSD")
    /\ pc' = "merge"
    /\ UNCHANGED <<config, workbook, provider_map, error, merged, tolerance,
                   matches, gaps, orders_only, commissions_only, summary,
                   provider_summary, buffered, saved>>

\* lines 120-135
Merge ==
    /\ pc = "merge"
    /\ UNCHANGED normVars
    /\ merged' = LET m == OuterMerge(orders_df.rows, commissions_df.rows)
                 IN  [i \in 1..Len(m) |-> FinishRow(m[i])]
    /\ pc' = "classify"
    /\ UNCHANGED <<config, workbook, provider_map, error, orders_df,
                   commissions_df, tolerance, matches, gaps, orders_only,
                   commissions_only, summary, provider_summary, buffered, saved>>

\* float(config.get("tolerance", 0.25)) (line 137)
ConfiguredTolerance ==
    IF "tolerance" \in DOMAIN config THEN config["tolerance"] ELSE DefaultTolerance

\* lines 137-141
Classify ==
    /\ pc = "classify"
    /\ UNCHANGED normVars
    /\ tolerance' = ConfiguredTolerance
    /\ matches' = SelectSeq(merged, IsBoth)
    /\ orders_only' = SelectSeq(merged, IsLeftOnly)
    /\ commissions_only' = SelectSeq(merged, IsRightOnly)
    /\ gaps' = SelectSeq(SelectSeq(merged, IsBoth),
                         LAMBDA r : ExceedsTolerance(r, ConfiguredTolerance))
    /\ pc' = "summarize"
    /\ UNCHANGED <<config, workbook, provider_map, error, orders_df,
                   commissions_df, merged, summary, provider_summary,
                   buffered, saved>>

\* lines 143-181
Summarize ==
    /\ pc = "summarize"
    /\ UNCHANGED normVars
    /\ summary' = MakeSummary(matches, gaps, orders_only, commissions_only)
    /\ provider_summary' =
           breakdown_by_provider(matches, CategoryNames[1])
           \o breakdown_by_provider(gaps, CategoryNames[2])
           \o breakdown_by_provider(orders_only, CategoryNames[3])
           \o breakdown_by_provider(commissions_only, CategoryNames[4])
    /\ pc' = "output"
    /\ UNCHANGED <<config, workbook, provider_map, error, orders_df,
                   commissions_df, merged, tolerance, matches, gaps,
                   orders_only, commissions_only, buffered, saved>>

\* lines 183-184: the output path is looked up, the writer opened
OpenOutput ==
    /\ pc = "output"
    /\ UNCHANGED normVars
    /\ \/ /\ ~CfgHas(config, OutputFileKeys)
          /\ Raise("KeyError")
       \/ /\ CfgHas(config, OutputFileKeys)
          /\ pc' = "write"
          /\ UNCHANGED <<config, workbook, provider_map, error, orders_df,
                         commissions_df, merged, tolerance, matches, gaps,
                         orders_only, commissions_only, summary,
                         provider_summary, buffered, saved>>

Sheet(name, data) == [sheet_name |-> name, data |-> data]

\* lines 185-190: the six sheets are handed to the writer
WriteSheets ==
    /\ pc = "write"
    /\ UNCHANGED normVars
    /\ buffered' = << Sheet("matches", matches),
                      Sheet("commission_gap", gaps),
                      Sheet("orders_missing_commission", orders_only),
                      Sheet("commissions_missing_orders", commissions_only),
                      Sheet("summary", summary),
                      Sheet("provider_summary", provider_summary) >>
    /\ pc' = "close"
    /\ UNCHANGED <<config, workbook, provider_map, error, orders_df,
                   commissions_df, merged, tolerance, matches, gaps,
                   orders_only, commissions_only, summary, provider_summary,
                   saved>>

\* the with block of line 184 ends: the workbook is saved (lines 190-194)
CloseWriter ==
    /\ pc = "close"
    /\ UNCHANGED normVars
    /\ saved' = buffered
    /\ pc' = "done"
    /\ UNCHANGED <<config, workbook, provider_map, error, orders_df,
                   commissions_df, merged, tolerance, matches, gaps,
                   orders_only, commissions_only, summary, provider_summary,
                   buffered>>

Next ==
    \/ OpenWorkbook
    \/ SelectSheets
    \/ ValidateColumns
    \/ ResolveProviders
    \/ NormalizeKeys
    \/ Merge
    \/ Classify
    \/ Summarize
    \/ OpenOutput
    \/ WriteSheets
    \/ CloseWriter

-----------------------------------------------------------------------------
(* The inputs of a run: config file, input workbook, alias file *)

\* a sheet whose rows are numbered in its "row" column
MakeSheet(cols, cells) ==
    [columns |-> cols \cup {"row"},
     rows |-> [i \in 1..Len(cells) |->
                 [c \in cols \cup {"row"} |-> IF c = "row" THEN i ELSE cells[i][c]]]]

FullConfig ==
    [input_file |-> "input.xlsx",
     orders_sheet |-> "orders",
     commissions_sheet |-> "commissions",
     orders_key |-> "locator",
     commissions_key |-> "locator",
     orders_commission_col |-> "commission",
     commissions_commission_col |-> "commission",
     output_file |-> "output.xlsx"]

Without(c, k) == [x \in DOMAIN c \ {k} |-> c[x]]
With(c, k, v) == [x \in DOMAIN c \cup {k} |-> IF x = k THEN v ELSE c[x]]

NoAliases == [x \in {} |-> x]
Aliases == [x \in {"p1"} |-> "P"]

Book(o, c) == [x \in {"orders", "commissions"} |-> IF x = "orders" THEN o ELSE c]

\* raw locators: the commission side spells the keys of the order side
\* with other case, blanks and punctuation
OrderLocators == {<<"a", "1">>, <<"b">>}
CommissionLocators == {<<" ", "A", "-", "1">>, <<"B", " ">>}
OrderAmounts == {Num(1), Num(3)}
CommissionAmounts == {Num(1), NaN}

\* the inputs of a run are read
Given(cf, wb, pm) ==
    /\ config = cf
    /\ workbook = wb
    /\ provider_map = pm

\* runs that differ in their rows and in the tolerance
DataInputs ==
    \E cf \in {FullConfig, With(FullConfig, "tolerance", 0)},
       n \in 0..MaxRows, m \in 0..MaxRows :
       \E o \in [1..n -> [locator : OrderLocators, commission : OrderAmounts]],
          c \in [1..m -> [locator : CommissionLocators, commission : CommissionAmounts]] :
          Given(cf, Book(MakeSheet({"locator", "commission"}, o),
                         MakeSheet({"locator", "commission"}, c)), NoAliases)

OrderProviderCells(cols) ==
    [locator : {<<"b">>}, commission : {Num(3)},
     provider : IF "provider" \in cols THEN {NA, "p1"} ELSE {NA},
     supplier : IF "supplier" \in cols THEN {NA, "s1"} ELSE {NA}]

CommissionProviderCells ==
    [locator : {<<"b">>, <<"a">>}, commission : {Num(1)}, provider : {NA, "p2"}]

\* runs that differ in their provider columns and provider cells
ProviderInputs ==
    \E cf \in {FullConfig,
                With(FullConfig, "provider_cols", <<"supplier", "provider">>)},
       cols \in {{"provider", "supplier"}, {"supplier"}, {}},
       n \in 0..MaxRows, m \in 0..MaxRows :
       \E o \in [1..n -> OrderProviderCells(cols)],
          c \in [1..m -> CommissionProviderCells] :
          Given(cf, Book(MakeSheet({"locator", "commission"} \cup cols, o),
                         MakeSheet({"locator", "commission", "provider"}, c)), Aliases)

SmallOrders ==
    { MakeSheet({"locator", "commission"}, <<[locator |-> <<"a", "1">>, commission |-> a]>>) :
        a \in OrderAmounts }
SmallCommissions ==
    MakeSheet({"locator", "commission"},
              <<[locator |-> <<" ", "A", "-", "1">>, commission |-> Num(1)]>>)

AliasOf(k) ==
    CASE k = "orders_sheet" -> "odv_sheet"
      [] k = "commissions_sheet" -> "com_sheet"
      [] k = "orders_key" -> "odv_key"
      [] k = "commissions_key" -> "com_key"
      [] k = "orders_commission_col" -> "odv_commission_col"
      [] k = "commissions_commission_col" -> "com_commission_col"
      [] OTHER -> k

DropColumn(sheet, col) ==
    [columns |-> sheet.columns \ {col},
     rows |-> [i \in 1..Len(sheet.rows) |->
                 [c \in sheet.columns \ {col} |-> sheet.rows[i][c]]]]

\* runs that differ in their config keys, sheets and columns
ConfigInputs ==
    \/ \E cf \in {With(FullConfig, "tolerance", -1)}
                  \cup {Without(FullConfig, k) : k \in DOMAIN FullConfig}
                  \cup {With(Without(FullConfig, k), AliasOf(k), FullConfig[k]) :
                           k \in DOMAIN FullConfig},
          o \in SmallOrders :
          Given(cf, Book(o, SmallCommissions), NoAliases)
    \/ \E wb \in {[x \in {s} |-> SmallCommissions] : s \in {"orders", "commissions"}}
                  \cup {Book(DropColumn(o, col), SmallCommissions) :
                           o \in SmallOrders, col \in {"locator", "commission"}}
                  \cup {Book(o, DropColumn(SmallCommissions, col)) :
                           o \in SmallOrders, col \in {"locator", "commission"}} :
          Given(FullConfig, wb, NoAliases)

Init ==
    /\ \/ DataInputs
       \/ ProviderInputs
       \/ ConfigInputs
    /\ pc = "start"
    /\ error = "none"
    /\ orders_df = EmptyFrame
    /\ commissions_df = EmptyFrame
    /\ merged = <<>>
    /\ tolerance = DefaultTolerance      \* not assigned before line 137
    /\ matches = <<>>
    /\ gaps = <<>>
    /\ orders_only = <<>>
    /\ commissions_only = <<>>
    /\ summary = <<>>
    /\ provider_summary = <<>>
    /\ buffered = <<>>
    /\ saved = <<>>
    /\ raw = <<>>
    /\ variant = <<>>
    /\ nkey = <<>>

Spec == Init /\ [][Next]_vars

-----------------------------------------------------------------------------
(* normalize_key on its own: a raw identifier, a respelling of it that      *)
(* differs in case, blanks and punctuation, and the key computed from it    *)

\* the characters raw identifiers are drawn from
RawChars == {"a", "A"} \cup Digits \cup Whitespace \cup Punct

SwapCase(c) == CASE c = "a" -> "A" [] c = "A" -> "a" [] c = "b" -> "B"
                 [] c = "B" -> "b" [] OTHER -> c

InitNorm ==
    /\ \E n \in 0..MaxLen : raw \in [1..n -> RawChars]
    /\ variant = raw
    /\ nkey = <<>>
    /\ pc = "raw"
    /\ config = FullConfig
    /\ workbook = Book(EmptyFrame, EmptyFrame)
    /\ provider_map = NoAliases
    /\ error = "none"
    /\ orders_df = EmptyFrame
    /\ commissions_df = EmptyFrame
    /\ merged = <<>>
    /\ tolerance = DefaultTolerance      \* not assigned before line 137
    /\ matches = <<>>
    /\ gaps = <<>>
    /\ orders_only = <<>>
    /\ commissions_only = <<>>
    /\ summary = <<>>
    /\ provider_summary = <<>>
    /\ buffered = <<>>
    /\ saved = <<>>

\* key = normalize_key(raw) (lines 111-112)
Normalize ==
    /\ pc = "raw"
    /\ nkey' = normalize_key(raw)
    /\ pc' = "normalized"
    /\ UNCHANGED <<raw, variant, config, workbook, provider_map, error, orders_df,
                   commissions_df, merged, tolerance, matches, gaps, orders_only,
                   commissions_only, summary, provider_summary, buffered, saved>>

\* the key is normalized again
Renormalize ==
    /\ pc = "normalized"
    /\ nkey' = normalize_key(nkey)
    /\ pc' = "renormalized"
    /\ UNCHANGED <<raw, variant, config, workbook, provider_map, error, orders_df,
                   commissions_df, merged, tolerance, matches, gaps, orders_only,
                   commissions_only, summary, provider_summary, buffered, saved>>

\* the respelling changes the case of one character
ToggleCase ==
    /\ \E i \in 1..Len(variant) :
          /\ IsAlnum(variant[i])
          /\ variant' = [variant EXCEPT ![i] = SwapCase(variant[i])]
    /\ UNCHANGED <<raw, nkey, pipeVars>>

\* the respelling gains a blank or a punctuation character
InsertIgnored ==
    /\ Len(variant) < MaxLen
    /\ \E i \in 0..Len(variant), c \in RawChars :
          /\ ~IsAlnum(c)
          /\ variant' = SubSeq(variant, 1, i) \o <<c>>
                        \o SubSeq(variant, i + 1, Len(variant))
    /\ UNCHANGED <<raw, nkey, pipeVars>>

\* the respelling loses a blank or a punctuation character
DeleteIgnored ==
    /\ \E i \in 1..Len(variant) :
          /\ ~IsAlnum(variant[i])
          /\ variant' = SubSeq(variant, 1, i - 1)
                        \o SubSeq(variant, i + 1, Len(variant))
    /\ UNCHANGED <<raw, nkey, pipeVars>>

NextNorm ==
    \/ Normalize
    \/ Renormalize
    \/ ToggleCase
    \/ InsertIgnored
    \/ DeleteIgnored

SpecNorm == InitNorm /\ [][NextNorm]_vars

-----------------------------------------------------------------------------
(* Properties *)

Range(s) == {s[i] : i \in 1..Len(s)}

\* main() has passed line 135 / line 141 / line 181
HasSummarized == summary # <<>>
HasClassified == pc = "summarize" \/ HasSummarized
HasMerged == pc = "classify" \/ HasClassified

Tables == <<matches, gaps, orders_only, commissions_only>>

OrdersWithKey(k) == SelectSeq(orders_df.rows, LAMBDA r : r["key"] = k)
CommissionsWithKey(k) == SelectSeq(commissions_df.rows, LAMBDA r : r["key"] = k)
MergedWithKey(k) == SelectSeq(merged, LAMBDA r : r.key = k)

JoinedKeys ==
    {r["key"] : r \in Range(orders_df.rows)}
    \cup {r["key"] : r \in Range(commissions_df.rows)}
    \cup {r.key : r \in Range(merged)}

PairedRows(ms, o, c) ==
    {n \in 1..Len(ms) :
        /\ ms[n].indicator = "both"
        /\ ms[n].row_order = Num(o["row"])
        /\ ms[n].row_commission = Num(c["row"])
        /\ ms[n].ExpectedCommissionUSD = o["ExpectedCommissionUSD"]
        /\ ms[n].BilledCommissionUSD = c["BilledCommissionUSD"]
        /\ ms[n].CommissionGapUSD =
              o["ExpectedCommissionUSD"] - c["BilledCommissionUSD"]}

OrderOnlyRows(ms, o) ==
    {n \in 1..Len(ms) :
        /\ ms[n].indicator = "left_only"
        /\ ms[n].row_order = Num(o["row"])
        /\ ms[n].row_commission = NaN
        /\ ms[n].ExpectedCommissionUSD = o["ExpectedCommissionUSD"]
        /\ ms[n].BilledCommissionUSD = 0
        /\ ms[n].CommissionGapUSD = o["ExpectedCommissionUSD"]}

CommissionOnlyRows(ms, c) ==
    {n \in 1..Len(ms) :
        /\ ms[n].indicator = "right_only"
        /\ ms[n].row_order = NaN
        /\ ms[n].row_commission = Num(c["row"])
        /\ ms[n].ExpectedCommissionUSD = 0
        /\ ms[n].BilledCommissionUSD = c["BilledCommissionUSD"]}

\* C4: the merge is a full outer join on the normalized key with
\* cross-product semantics.  For every key k with m order rows and n
\* commission rows the merged frame holds, for m > 0 and n > 0, exactly m*n
\* rows, one per (order, commission) pair, all "both", with gap = that
\* order's expected minus that commission's billed; for n = 0 exactly m rows,
\* one per order row, "left_only", billed 0 and gap = expected; for m = 0
\* exactly n rows, one per commission row, "right_only", expected 0; and it
\* holds no row of any other key.
CrossProductJoin ==
    HasMerged =>
        \A k \in JoinedKeys :
            LET os == OrdersWithKey(k)
                cs == CommissionsWithKey(k)
                ms == MergedWithKey(k)
            IN  /\ (os # <<>> /\ cs # <<>>) =>
                      /\ Len(ms) = Len(os) * Len(cs)
                      /\ \A i \in 1..Len(os), j \in 1..Len(cs) :
                            Cardinality(PairedRows(ms, os[i], cs[j])) = 1
                /\ (os # <<>> /\ cs = <<>>) =>
                      /\ Len(ms) = Len(os)
                      /\ \A i \in 1..Len(os) :
                            Cardinality(OrderOnlyRows(ms, os[i])) = 1
                /\ (os = <<>> /\ cs # <<>>) =>
                      /\ Len(ms) = Len(cs)
                      /\ \A j \in 1..Len(cs) :
                            Cardinality(CommissionOnlyRows(ms, cs[j])) = 1
                /\ (os = <<>> /\ cs = <<>>) => ms = <<>>

\* C4, a run where it matters: two order rows and two commission rows whose
\* differently spelled locators normalize to one key give four "both" rows,
\* with two different gaps
CrossProductJoinWitness ==
    /\ pc = "done"
    /\ Len(orders_df.rows) = 2
    /\ Len(commissions_df.rows) = 2
    /\ Len(merged) = 4
    /\ \A r \in Range(merged) : r.indicator = "both"
    /\ \E r1, r2 \in Range(merged) : r1.CommissionGapUSD # r2.CommissionGapUSD
    /\ \A o \in Range(orders_df.rows), c \in Range(commissions_df.rows) :
          o["locator"] # c["locator"]

ExpectedOf(t) == SumSeq(Column(t, "ExpectedCommissionUSD"))
BilledOf(t) == SumSeq(Column(t, "BilledCommissionUSD"))
GapOf(t) == SumSeq(Column(t, "CommissionGapUSD"))

\* C8: the summary has exactly four rows, in the order Perfect Match,
\* Commission Gap, Orders Missing Commission, Commission Missing Order,
\* whatever the input; each row's Records and three sums are those of the
\* rows of its table, and the row of an empty table has Records = 0 and
\* sums 0.
SummaryFourRows ==
    HasSummarized =>
        /\ Len(summary) = 4
        /\ [i \in 1..4 |-> summary[i].Category] =
              <<"Perfect Match", "Commission Gap", "Orders Missing Commission",
                "Commission Missing Order">>
        /\ \A i \in 1..4 :
              /\ summary[i].Records = Len(Tables[i])
              /\ summary[i].ExpectedCommissionUSD = ExpectedOf(Tables[i])
              /\ summary[i].BilledCommissionUSD = BilledOf(Tables[i])
              /\ summary[i].CommissionGapUSD = GapOf(Tables[i])
              /\ Tables[i] = <<>> =>
                    /\ summary[i].Records = 0
                    /\ summary[i].ExpectedCommissionUSD = 0
                    /\ summary[i].BilledCommissionUSD = 0
                    /\ summary[i].CommissionGapUSD = 0

\* C8, a run where it matters: a finished run with an empty category beside
\* non-empty ones, one of them the commissions without an order
SummaryFourRowsWitness ==
    /\ pc = "done"
    /\ summary[2].Records = 0
    /\ summary[1].Records > 0
    /\ summary[4].Records > 0
    /\ summary[4].BilledCommissionUSD > 0
    /\ summary[1].ExpectedCommissionUSD > 0

ProviderRows(c) ==
    SelectSeq(provider_summary, LAMBDA r : r.Category = CategoryNames[c])

\* C10: for each category the provider_summary rows have pairwise distinct
\* providers, each with Records >= 1 (the rows of its table under that
\* provider); every provider of the table has a row and an empty table has
\* none; and Records and the three sums, added over the providers, are the
\* values of the category's summary row.
ProviderBreakdownConsistent ==
    HasSummarized =>
        /\ \A r \in Range(provider_summary) : r.Category \in Range(CategoryNames)
        /\ \A c \in 1..4 :
              LET ps == ProviderRows(c)
              IN  /\ \A i, j \in 1..Len(ps) :
                        i # j => ps[i].Provider # ps[j].Provider
                  /\ \A i \in 1..Len(ps) :
                        /\ ps[i].Records >= 1
                        /\ ps[i].Records =
                              Cardinality({n \in 1..Len(Tables[c]) :
                                              Tables[c][n].Provider = ps[i].Provider})
                  /\ \A r \in Range(Tables[c]) :
                        \E i \in 1..Len(ps) : ps[i].Provider = r.Provider
                  /\ Tables[c] = <<>> => ps = <<>>
                  /\ SumSeq(Column(ps, "Records")) = summary[c].Records
                  /\ ExpectedOf(ps) = summary[c].ExpectedCommissionUSD
                  /\ BilledOf(ps) = summary[c].BilledCommissionUSD
                  /\ GapOf(ps) = summary[c].CommissionGapUSD

\* C10, a run where it matters: a finished run with a category of two
\* providers, one of them Unassigned, and a category without rows
ProviderBreakdownWitness ==
    /\ pc = "done"
    /\ \E c \in 1..4 :
          /\ Len(ProviderRows(c)) >= 2
          /\ \E r \in Range(ProviderRows(c)) : r.Provider = "Unassigned"
          /\ \E r \in Range(ProviderRows(c)) : r.ExpectedCommissionUSD > 0
    /\ \E c \in 1..4 : ProviderRows(c) = <<>>

\* C1: for any tolerance >= 0 the four tables (matches, commission_gap,
\* orders_missing_commission, commissions_missing_order) are pairwise
\* disjoint and their union is the merged frame: every merged row is in
\* exactly one of them.
PartitionDisjointExhaustive ==
    (HasClassified /\ tolerance >= 0) =>
        /\ \A r \in Range(merged) :
              Cardinality({t \in 1..4 : r \in Range(Tables[t])}) = 1
        /\ \A t \in 1..4 : Range(Tables[t]) \subseteq Range(merged)

\* C2: the expected commission reported for Perfect Match, Commission Gap
\* and Orders Missing Commission adds up to the expected commission of the
\* order rows.
ExpectedConserved ==
    HasSummarized =>
        summary[1].ExpectedCommissionUSD + summary[2].ExpectedCommissionUSD
            + summary[3].ExpectedCommissionUSD
        = ExpectedOf(orders_df.rows)

\* C3: with a tolerance >= 0, a merged row is in matches exactly when it is
\* on both sides with abs(gap) <= tolerance, in commission_gap exactly when
\* it is on both sides with abs(gap) > tolerance, in
\* orders_missing_commission exactly when order-only and in
\* commissions_missing_order exactly when commission-only; when every row on
\* both sides has abs(gap) <= tolerance, the Commission Gap row has 0 records.
ClassificationByTolerance ==
    (HasClassified /\ tolerance >= 0) =>
        /\ \A r \in Range(merged) :
              /\ r \in Range(matches) <=>
                    (IsBoth(r) /\ Abs(r.CommissionGapUSD) <= tolerance)
              /\ r \in Range(gaps) <=>
                    (IsBoth(r) /\ Abs(r.CommissionGapUSD) > tolerance)
              /\ r \in Range(orders_only) <=> IsLeftOnly(r)
              /\ r \in Range(commissions_only) <=> IsRightOnly(r)
        /\ (HasSummarized /\ \A r \in Range(merged) :
                IsBoth(r) => Abs(r.CommissionGapUSD) <= tolerance)
              => summary[2].Records = 0

\* C5: a run whose config has tolerance < 0 never merges, classifies or
\* writes.
NegativeToleranceRejected ==
    ("tolerance" \in DOMAIN config /\ config["tolerance"] < 0) =>
        /\ ~HasMerged
        /\ buffered = <<>>
        /\ saved = <<>>

RequiredKeys ==
    {InputFileKeys, OrdersSheetKeys, CommissionsSheetKeys, OrdersKeyKeys,
     CommissionsKeyKeys, OrdersCommissionKeys, CommissionsCommissionKeys,
     OutputFileKeys}

\* every required key is configured, both sheets exist and have their
\* configured columns
RunIsValid ==
    /\ \A ks \in RequiredKeys : CfgHas(config, ks)
    /\ Cfg(config, OrdersSheetKeys) \in DOMAIN workbook
    /\ Cfg(config, CommissionsSheetKeys) \in DOMAIN workbook
    /\ {Cfg(config, OrdersKeyKeys), Cfg(config, OrdersCommissionKeys)}
          \subseteq workbook[Cfg(config, OrdersSheetKeys)].columns
    /\ {Cfg(config, CommissionsKeyKeys), Cfg(config, CommissionsCommissionKeys)}
          \subseteq workbook[Cfg(config, CommissionsSheetKeys)].columns

\* C6: a run in which a required config key or a configured column is absent
\* never reaches the merge and never hands a sheet to the writer; a workbook
\* is saved only in a run where every validation passes.
FatalErrorsPrecedeJoin ==
    ~RunIsValid =>
        /\ ~HasMerged
        /\ buffered = <<>>
        /\ saved = <<>>

\* the provider of one input record as C7 states it: the first candidate
\* column that is present and not empty on that record, aliased
RECURSIVE ResolveRecord(_, _, _)
ResolveRecord(row, columns, candidates) ==
    IF candidates = <<>> THEN NA
    ELSE IF Head(candidates) \in columns /\ row[Head(candidates)] # NA
    THEN replace(row[Head(candidates)], provider_map)
    ELSE ResolveRecord(row, columns, Tail(candidates))

ResolveSide(sheet, id) ==
    IF id = NaN THEN NA
    ELSE ResolveRecord(sheet.rows[id[1]], sheet.columns, ProviderCols)

\* C7: the Provider of a merged row is the order row's provider if it has
\* one, else the commission row's, else "Unassigned", the provider of an
\* input row being the aliased value of its first candidate column that is
\* present and not empty on that row; and the row is counted under that
\* label in provider_summary.
ProviderPerRecord ==
    HasMerged =>
        \A r \in Range(merged) :
            LET po == ResolveSide(workbook[Cfg(config, OrdersSheetKeys)], r.row_order)
                pm == ResolveSide(workbook[Cfg(config, CommissionsSheetKeys)],
                                  r.row_commission)
                label == IF po # NA THEN po ELSE IF pm # NA THEN pm ELSE "Unassigned"
            IN  /\ r.Provider = label
                /\ HasSummarized =>
                      \A c \in 1..4 :
                          r \in Range(Tables[c]) =>
                              \E p \in Range(ProviderRows(c)) : p.Provider = label

\* C9: normalize_key is idempotent (the key normalized again is the key), its
\* result holds only the characters 0-9 and A-Z, and a respelling of the raw
\* identifier that differs only in case, blanks and other non-alphanumeric
\* characters normalizes to the same key.
NormalizeIdempotentInsensitive ==
    /\ pc = "renormalized" => nkey = normalize_key(raw)
    /\ pc \in {"normalized", "renormalized"} =>
          \A i \in 1..Len(nkey) : nkey[i] \in Digits \cup UpperCase
    /\ normalize_key(variant) = normalize_key(raw)

\* C9, a run where it matters: "a-1" and its respelling "A1 " both give "A1",
\* and "A1" normalized again is "A1"
NormalizeWitness ==
    /\ pc = "renormalized"
    /\ raw = <<"a", "-", "1">>
    /\ variant = <<"A", "1", " ">>
    /\ nkey = <<"A", "1">>

=============================================================================
